---- MODULE Spec2Model ----
(***************************************************************************)
(* Host-authoritative state synchronisation of the peer-to-peer card game  *)
(* (src/main.js).  Every browser runs the same script and owns one global  *)
(* gameState object; gameState[p] below is the object of peer p.           *)
(*                                                                         *)
(* Representation notes                                                    *)
(*  - JavaScript arrays are 0-based, TLA+ sequences 1-based: index i of    *)
(*    the code is element i+1 of the sequence.  currentPlayerIndex, slot   *)
(*    indexes and card.slot keep the code's 0-based values.                *)
(*  - null is the integer Null (-1).                                       *)
(*  - the card id string `card-${i}` is the integer i; front and back are  *)
(*    functions of i that no code path changes and are left out.           *)
(*  - ref is the identity of the JavaScript object that holds a card.  Two *)
(*    entries with the same ref are the same object, so an assignment to   *)
(*    a field of one is seen through the other.  createCard numbers the    *)
(*    object by its card id; JSON.parse makes a fresh object for every     *)
(*    entry it reads.                                                      *)
(*  - gameState.peer is an opaque transport handle and is left out; a      *)
(*    connection is the record [peer, live]: live is FALSE for the plain   *)
(*    object JSON.parse makes from a connection (it has no send method).   *)
(***************************************************************************)
EXTENDS Integers, Sequences, FiniteSets, TLC

Null == -1

NumSlots == 10
DeckSize == 41
HeroSlot == 2
MainDeckSlot == 8
StartHealth == 40
MaxLifeforce == 10
TurnLifeforce == 5

(* ---------------- bounds of the exploration ---------------- *)
MaxActions == 2
MaxNetActions == 2

Host == "host"
Clients == {"c1", "c2"}
Peers == {Host} \union Clients

\* the client that takes part in SpecNet; the other one joins in SpecReq only
NetClients == {"c1"}
NetPeers == {Host} \union NetClients

(***************************************************************************)
(* Sequence helpers                                                        *)
(***************************************************************************)
Min(S) == CHOOSE x \in S : \A y \in S : x <= y

RemoveAt(s, i) == SubSeq(s, 1, i - 1) \o SubSeq(s, i + 1, Len(s))

\* Array.prototype.findIndex(c => c.cardId === cardId), as a 1-based index, 0 for -1
FindIndex(s, cardId) ==
  LET hits == {i \in 1..Len(s) : s[i].cardId = cardId}
  IN IF hits = {} THEN 0 ELSE Min(hits)

InRange(slotIndex) == slotIndex \in 0..(NumSlots - 1)

(***************************************************************************)
(* Data structures                                                         *)
(***************************************************************************)
createPlayer(id, name) ==
  [id |-> id, name |-> name, health |-> StartHealth, lifeforce |-> MaxLifeforce,
   hand |-> <<>>, isMyTurn |-> FALSE, hasForfeited |-> FALSE]

createCard(cardId) ==
  [cardId |-> cardId, isFaceDown |-> TRUE, orientation |-> 0, slot |-> Null,
   ref |-> cardId]

EmptyGameState ==
  [players |-> <<>>, currentPlayerIndex |-> 0,
   fieldSlots |-> [s \in 1..NumSlots |-> <<>>],
   deck |-> <<>>, gameActive |-> FALSE,
   isHost |-> FALSE, connections |-> <<>>, hostId |-> Null]

(***************************************************************************)
(* Utility functions                                                       *)
(***************************************************************************)
MathMax(a, b) == IF a >= b THEN a ELSE b
MathMin(a, b) == IF a <= b THEN a ELSE b

clamp(value, min, max) == MathMax(min, MathMin(value, max))

clampHealth(health) == MathMax(health, 0)

\* clampLifeforce with the ceiling forgotten
clampLifeforceNoCeiling(lifeforce) == MathMax(lifeforce, 0)

clampLifeforce(lifeforce) == clamp(lifeforce, 0, MaxLifeforce)

\* Math.floor(Math.random() * playerCount): any index below playerCount, 0 when it is 0
getRandomFirstTurn(playerCount) ==
  IF playerCount = 0 THEN {0} ELSE 0..(playerCount - 1)

(***************************************************************************)
(* Object identity: an assignment to a field of the object ref             *)
(***************************************************************************)
\* the entry c after object ref had its field set to v
Assigned(c, ref, field, v) ==
  IF c.ref = ref THEN [c EXCEPT ![field] = v] ELSE c

\* G after the assignment object.field = v to the card object ref
SetField(G, ref, field, v) ==
  [G EXCEPT
     !.deck = [i \in 1..Len(G.deck) |-> Assigned(G.deck[i], ref, field, v)],
     !.fieldSlots = [s \in 1..NumSlots |->
                       [i \in 1..Len(G.fieldSlots[s]) |->
                          Assigned(G.fieldSlots[s][i], ref, field, v)]],
     !.players = [p \in 1..Len(G.players) |->
                    [G.players[p] EXCEPT
                       !.hand = [i \in 1..Len(G.players[p].hand) |->
                                   Assigned(G.players[p].hand[i], ref, field, v)]]]]

SetSlotOf(G, ref, slotIndex) == SetField(G, ref, "slot", slotIndex)

SetFaceDownOf(G, ref, v) == SetField(G, ref, "isFaceDown", v)

SetOrientationOf(G, ref, v) == SetField(G, ref, "orientation", v)

(***************************************************************************)
(* End turn (host)                                                         *)
(***************************************************************************)
\* endTurn that forgets to clear the flag of the player whose turn ends
endTurnKeepsFlag(G, playerId) ==
  LET nxtIndex == (G.currentPlayerIndex + 1) % Len(G.players)
      G2 == [G EXCEPT !.currentPlayerIndex = nxtIndex]
      G3 == [G2 EXCEPT !.players[nxtIndex + 1].isMyTurn = TRUE]
  IN IF G.players[G.currentPlayerIndex + 1].id # playerId THEN G
     ELSE [G3 EXCEPT !.players[nxtIndex + 1].lifeforce =
                        clampLifeforce(G3.players[nxtIndex + 1].lifeforce + TurnLifeforce)]

\* endTurn that adds the regeneration without clamping it
endTurnNoClamp(G, playerId) ==
  LET nxtIndex == (G.currentPlayerIndex + 1) % Len(G.players)
      G1 == [G EXCEPT !.players[G.currentPlayerIndex + 1].isMyTurn = FALSE]
      G2 == [G1 EXCEPT !.currentPlayerIndex = nxtIndex]
      G3 == [G2 EXCEPT !.players[nxtIndex + 1].isMyTurn = TRUE]
  IN IF G.players[G.currentPlayerIndex + 1].id # playerId THEN G
     ELSE [G3 EXCEPT !.players[nxtIndex + 1].lifeforce = @ + TurnLifeforce]

\* endTurn that does not check who submitted it
endTurnNoCheck(G, playerId) ==
  LET nxtIndex == (G.currentPlayerIndex + 1) % Len(G.players)
      G1 == [G EXCEPT !.players[G.currentPlayerIndex + 1].isMyTurn = FALSE]
      G2 == [G1 EXCEPT !.currentPlayerIndex = nxtIndex]
      G3 == [G2 EXCEPT !.players[nxtIndex + 1].isMyTurn = TRUE]
  IN [G3 EXCEPT !.players[nxtIndex + 1].lifeforce =
                   clampLifeforce(G3.players[nxtIndex + 1].lifeforce + TurnLifeforce)]

endTurn(G, playerId) ==
  LET cur == G.currentPlayerIndex + 1
      nxtIndex == (G.currentPlayerIndex + 1) % Len(G.players)
      nxt == nxtIndex + 1
      G1 == [G EXCEPT !.players[cur].isMyTurn = FALSE]
      G2 == [G1 EXCEPT !.currentPlayerIndex = nxtIndex]
      G3 == [G2 EXCEPT !.players[nxt].isMyTurn = TRUE]
  IN IF G.players[cur].id # playerId THEN G
     ELSE [G3 EXCEPT !.players[nxt].lifeforce =
                        clampLifeforce(G3.players[nxt].lifeforce + TurnLifeforce)]

(***************************************************************************)
(* Resource updates                                                        *)
(***************************************************************************)
\* players.find(p => p.id === playerId), as a 1-based index, 0 for undefined
FindPlayer(G, playerId) ==
  LET hits == {p \in 1..Len(G.players) : G.players[p].id = playerId}
  IN IF hits = {} THEN 0 ELSE Min(hits)

applyResourceUpdate(G, playerId, resourceType, newValue) ==
  LET p == FindPlayer(G, playerId)
  IN IF p = 0 THEN G
     ELSE IF resourceType = "health"
          THEN [G EXCEPT !.players[p].health = clampHealth(newValue)]
     ELSE IF resourceType = "lifeforce"
          THEN [G EXCEPT !.players[p].lifeforce = clampLifeforce(newValue)]
     ELSE G

(***************************************************************************)
(* Forfeit                                                                 *)
(***************************************************************************)
\* applyForfeit that ends the game only when nobody is left
applyForfeitNoSurvivor(G, playerId) ==
  LET p == FindPlayer(G, playerId)
      G1 == [G EXCEPT !.players[p].hasForfeited = TRUE]
      activePlayers == {q \in 1..Len(G1.players) : ~G1.players[q].hasForfeited}
  IN IF p = 0 THEN G
     ELSE IF Cardinality(activePlayers) < 1
          THEN [G1 EXCEPT !.gameActive = FALSE]
          ELSE G1

applyForfeit(G, playerId) ==
  LET p == FindPlayer(G, playerId)
      G1 == [G EXCEPT !.players[p].hasForfeited = TRUE]
      activePlayers == {q \in 1..Len(G1.players) : ~G1.players[q].hasForfeited}
  IN IF p = 0 THEN G
     ELSE IF Cardinality(activePlayers) <= 1
          THEN [G1 EXCEPT !.gameActive = FALSE]
          ELSE G1

(***************************************************************************)
(* Deck reset                                                              *)
(***************************************************************************)
\* applyDeckReset that leaves the hands as they are
applyDeckResetKeepsHands(G) ==
  LET cleared == [G EXCEPT !.fieldSlots = [s \in 1..NumSlots |-> <<>>]]
  IN IF Len(G.deck) < DeckSize THEN cleared
     ELSE [cleared EXCEPT
             !.fieldSlots[HeroSlot + 1] = <<G.deck[1]>>,
             !.fieldSlots[MainDeckSlot + 1] = SubSeq(G.deck, 2, DeckSize)]

\* what reading deck[i] past the end of the array pushes: undefined
UndefinedEntry ==
  [cardId |-> Null, isFaceDown |-> FALSE, orientation |-> 0, slot |-> Null,
   ref |-> Null]

\* applyDeckReset without the check of the deck's length
applyDeckResetNoCheck(G) ==
  LET cleared == [G EXCEPT
                    !.fieldSlots = [s \in 1..NumSlots |-> <<>>],
                    !.players = [p \in 1..Len(G.players) |->
                                   [G.players[p] EXCEPT !.hand = <<>>]]]
      entry(i) == IF i <= Len(G.deck) THEN G.deck[i] ELSE UndefinedEntry
  IN [cleared EXCEPT
        !.fieldSlots[HeroSlot + 1] = <<entry(1)>>,
        !.fieldSlots[MainDeckSlot + 1] = [i \in 1..(DeckSize - 1) |-> entry(i + 1)]]

applyDeckReset(G) ==
  LET cleared == [G EXCEPT
                    !.fieldSlots = [s \in 1..NumSlots |-> <<>>],
                    !.players = [p \in 1..Len(G.players) |->
                                   [G.players[p] EXCEPT !.hand = <<>>]]]
  IN IF Len(G.deck) < DeckSize THEN cleared
     ELSE [cleared EXCEPT
             !.fieldSlots[HeroSlot + 1] = <<G.deck[1]>>,
             !.fieldSlots[MainDeckSlot + 1] = SubSeq(G.deck, 2, DeckSize)]

(***************************************************************************)
(* Game reset: r is the outcome of getRandomFirstTurn.  With no player the *)
(* write to players[0].isMyTurn throws after the deck is rebuilt.          *)
(***************************************************************************)
\* applyGameReset that leaves the forfeited flags as they are
applyGameResetKeepsForfeit(G, r) ==
  LET G1 == [G EXCEPT
               !.players = [p \in 1..Len(G.players) |->
                              [G.players[p] EXCEPT
                                 !.health = StartHealth, !.lifeforce = MaxLifeforce,
                                 !.hand = <<>>, !.isMyTurn = FALSE]],
               !.fieldSlots = [s \in 1..NumSlots |-> <<>>],
               !.deck = [i \in 1..DeckSize |-> createCard(i - 1)],
               !.currentPlayerIndex = r]
  IN IF Len(G.players) = 0
     THEN [g |-> G1, threw |-> TRUE]
     ELSE [g |-> applyDeckReset([G1 EXCEPT !.players[r + 1].isMyTurn = TRUE,
                                           !.gameActive = TRUE]),
           threw |-> FALSE]

applyGameReset(G, r) ==
  LET G1 == [G EXCEPT
               !.players = [p \in 1..Len(G.players) |->
                              [G.players[p] EXCEPT
                                 !.health = StartHealth, !.lifeforce = MaxLifeforce,
                                 !.hand = <<>>, !.hasForfeited = FALSE,
                                 !.isMyTurn = FALSE]],
               !.fieldSlots = [s \in 1..NumSlots |-> <<>>],
               !.deck = [i \in 1..DeckSize |-> createCard(i - 1)],
               !.currentPlayerIndex = r]
  IN IF Len(G.players) = 0
     THEN [g |-> G1, threw |-> TRUE]
     ELSE [g |-> applyDeckReset([G1 EXCEPT !.players[r + 1].isMyTurn = TRUE,
                                           !.gameActive = TRUE]),
           threw |-> FALSE]

(***************************************************************************)
(* Move card to slot.  The result records whether the call threw a         *)
(* TypeError (indexing fieldSlots outside 0..9 yields undefined) and the   *)
(* state the throw leaves behind.                                          *)
(***************************************************************************)
\* PushToSlot that forgets card.slot = slotIndex
PushToSlotKeepsSlotRef(G, card, slotIndex) ==
  IF ~InRange(slotIndex)
  THEN [g |-> G, threw |-> TRUE]
  ELSE [g |-> [G EXCEPT !.fieldSlots[slotIndex + 1] = Append(@, card)],
        threw |-> FALSE]

PushToSlot(G, card, slotIndex) ==
  IF ~InRange(slotIndex)
  THEN [g |-> G, threw |-> TRUE]
  ELSE [g |-> SetSlotOf([G EXCEPT !.fieldSlots[slotIndex + 1] = Append(@, card)],
                        card.ref, slotIndex),
        threw |-> FALSE]

moveCardToSlot(G, cardId, slotIndex, fromHand, fromSlotIndex) ==
  LET owners == {p \in 1..Len(G.players) : FindIndex(G.players[p].hand, cardId) # 0}
  IN IF fromHand
     THEN IF owners = {} THEN [g |-> G, threw |-> FALSE]
          ELSE LET p == Min(owners)
                   idx == FindIndex(G.players[p].hand, cardId)
               IN PushToSlot([G EXCEPT !.players[p].hand = RemoveAt(@, idx)],
                             G.players[p].hand[idx], slotIndex)
     ELSE IF fromSlotIndex # Null
     THEN IF ~InRange(fromSlotIndex) THEN [g |-> G, threw |-> TRUE]
          ELSE LET stack == G.fieldSlots[fromSlotIndex + 1]
                   idx == FindIndex(stack, cardId)
               IN IF idx = 0 THEN [g |-> G, threw |-> FALSE]
                  ELSE PushToSlot([G EXCEPT !.fieldSlots[fromSlotIndex + 1] =
                                               RemoveAt(@, idx)],
                                  stack[idx], slotIndex)
     ELSE [g |-> G, threw |-> FALSE]

(***************************************************************************)
(* Context-action targets.  A target is                                    *)
(*   [isSlot, slotIndex, stack, isHandCard, cardObject]                    *)
(* On the host side (a reconstructed target, or the contextTarget of a     *)
(* local gesture) stack is a reference to an array: the index of the       *)
(* fieldSlots entry it aliases, or Null for a detached empty array; and    *)
(* cardObject is the ref of a card object, or Null.  In a client payload   *)
(* stack and cardObject are plain data: a sequence of card records, and a  *)
(* sequence holding the card record (empty for a missing cardObject).      *)
(***************************************************************************)
\* findCardInAllHands: the ref of the first card with that id, Null for null
findCardInAllHands(G, cardId) ==
  LET owners == {p \in 1..Len(G.players) : FindIndex(G.players[p].hand, cardId) # 0}
  IN IF owners = {} THEN Null
     ELSE LET p == Min(owners)
          IN G.players[p].hand[FindIndex(G.players[p].hand, cardId)].ref

\* reconstructTargetFromClient that believes the client's copy of the stack
\* when it shows no card
reconstructTargetTrustsStack(G, clientTarget) ==
  [isSlot |-> clientTarget.isSlot,
   slotIndex |-> IF clientTarget.isSlot /\ clientTarget.slotIndex # Null
                 THEN clientTarget.slotIndex ELSE Null,
   stack |-> IF clientTarget.isSlot /\ clientTarget.slotIndex # Null
                /\ InRange(clientTarget.slotIndex) /\ clientTarget.stack # <<>>
             THEN clientTarget.slotIndex ELSE Null,
   isHandCard |-> clientTarget.isHandCard,
   cardObject |-> IF clientTarget.isHandCard /\ clientTarget.cardObject # <<>>
                  THEN findCardInAllHands(G, clientTarget.cardObject[1].cardId)
                  ELSE Null]

reconstructTargetFromClient(G, clientTarget) ==
  [isSlot |-> clientTarget.isSlot,
   slotIndex |-> IF clientTarget.isSlot /\ clientTarget.slotIndex # Null
                 THEN clientTarget.slotIndex ELSE Null,
   stack |-> IF clientTarget.isSlot /\ clientTarget.slotIndex # Null
                /\ InRange(clientTarget.slotIndex)
             THEN clientTarget.slotIndex ELSE Null,
   isHandCard |-> clientTarget.isHandCard,
   cardObject |-> IF clientTarget.isHandCard /\ clientTarget.cardObject # <<>>
                  THEN findCardInAllHands(G, clientTarget.cardObject[1].cardId)
                  ELSE Null]

\* the array targetInfo.stack refers to
StackOf(G, targetInfo) ==
  IF targetInfo.stack = Null THEN <<>> ELSE G.fieldSlots[targetInfo.stack + 1]

\* the card object with identity ref (every entry with that ref is the same object)
CardByRef(G, ref) ==
  LET all == {G.deck[i] : i \in 1..Len(G.deck)}
             \union UNION {{G.fieldSlots[s][i] : i \in 1..Len(G.fieldSlots[s])}
                             : s \in 1..NumSlots}
             \union UNION {{G.players[p].hand[i] : i \in 1..Len(G.players[p].hand)}
                             : p \in 1..Len(G.players)}
  IN CHOOSE c \in all : c.ref = ref

\* getTopCard that falls back on the last card of the deck when the target
\* resolves to no card
getTopCardOrDeckTop(G, targetInfo) ==
  LET stack == StackOf(G, targetInfo)
  IN IF targetInfo.isSlot /\ Len(stack) > 0 THEN stack[Len(stack)].ref
     ELSE IF targetInfo.isHandCard /\ targetInfo.cardObject # Null
          THEN targetInfo.cardObject
     ELSE IF Len(G.deck) > 0 THEN G.deck[Len(G.deck)].ref
     ELSE Null

\* getTopCard: the ref of the card it returns, Null for null
getTopCard(G, targetInfo) ==
  LET stack == StackOf(G, targetInfo)
  IN IF targetInfo.isSlot /\ Len(stack) > 0 THEN stack[Len(stack)].ref
     ELSE IF targetInfo.isHandCard /\ targetInfo.cardObject # Null
          THEN targetInfo.cardObject
     ELSE Null

flipTopCard(G, targetInfo) ==
  LET card == getTopCard(G, targetInfo)
  IN IF card = Null THEN G
     ELSE SetFaceDownOf(G, card, ~CardByRef(G, card).isFaceDown)

rotateTopCard(G, targetInfo) ==
  LET card == getTopCard(G, targetInfo)
  IN IF card = Null THEN G
     ELSE SetOrientationOf(G, card, (CardByRef(G, card).orientation + 90) % 360)

(***************************************************************************)
(* shuffleStack: Fisher-Yates.  Math.random is sampled as one of three     *)
(* values held over the loop: 0, 1/2 and just below 1.                     *)
(***************************************************************************)
RandomSamples == {"zero", "half", "one"}

\* Math.floor(Math.random() * (i + 1))
RandomIndex(rnd, i) ==
  IF rnd = "zero" THEN 0 ELSE IF rnd = "half" THEN (i + 1) \div 2 ELSE i

\* the swap written as one assignment: stack[i] = stack[j]
SwapOverwrites(stack, i, j) ==
  [stack EXCEPT ![i + 1] = stack[j + 1]]

Swap(stack, i, j) ==
  [stack EXCEPT ![i + 1] = stack[j + 1], ![j + 1] = stack[i + 1]]

RECURSIVE FisherYates(_, _, _)
FisherYates(stack, i, rnd) ==
  IF i <= 0 THEN stack
  ELSE FisherYates(Swap(stack, i, RandomIndex(rnd, i)), i - 1, rnd)

shuffleStack(G, targetInfo, rnd) ==
  IF targetInfo.stack = Null THEN G
  ELSE [G EXCEPT !.fieldSlots[targetInfo.stack + 1] =
                    FisherYates(@, Len(@) - 1, rnd)]

(***************************************************************************)
(* drawTopCard: pops targetInfo.stack whatever getTopCard returned, then   *)
(* pushes the card on the current player's hand (a TypeError when there    *)
(* is no such player).                                                     *)
(***************************************************************************)
drawTopCard(G, targetInfo) ==
  LET topCard == getTopCard(G, targetInfo)
      stack == StackOf(G, targetInfo)
      G1 == IF targetInfo.stack # Null /\ Len(stack) > 0
            THEN [G EXCEPT !.fieldSlots[targetInfo.stack + 1] =
                              SubSeq(stack, 1, Len(stack) - 1)]
            ELSE G
  IN IF topCard = Null THEN [g |-> G, threw |-> FALSE]
     ELSE IF G.currentPlayerIndex + 1 > Len(G.players)
          THEN [g |-> G1, threw |-> TRUE]
     ELSE [g |-> [G1 EXCEPT !.players[G.currentPlayerIndex + 1].hand =
                               Append(@, CardByRef(G, topCard))],
           threw |-> FALSE]

\* ZOOM and SEARCH only open a modal of the page
applyContextAction(G, actionType, targetInfo, rnd) ==
  IF actionType = "FLIP" THEN [g |-> flipTopCard(G, targetInfo), threw |-> FALSE]
  ELSE IF actionType = "ROTATE" THEN [g |-> rotateTopCard(G, targetInfo), threw |-> FALSE]
  ELSE IF actionType = "SHUFFLE" THEN [g |-> shuffleStack(G, targetInfo, rnd), threw |-> FALSE]
  ELSE IF actionType = "DRAW" THEN drawTopCard(G, targetInfo)
  ELSE [g |-> G, threw |-> FALSE]

(***************************************************************************)
(* Player actions (host).  rnd = [first, shuffle] holds the outcomes of    *)
(* Math.random the call consumes.  The result is the state the switch      *)
(* leaves and whether it threw; the trailing broadcastGameState() runs     *)
(* only when it did not.                                                   *)
(***************************************************************************)
ApplyAction(G, actionPayload, rnd) ==
  IF actionPayload.action = "END_TURN"
  THEN IF Len(G.players) = 0 THEN [g |-> G, threw |-> TRUE]
       ELSE [g |-> endTurn(G, actionPayload.playerId), threw |-> FALSE]
  ELSE IF actionPayload.action = "MOVE_CARD_TO_SLOT"
  THEN moveCardToSlot(G, actionPayload.cardId, actionPayload.slotIndex,
                      actionPayload.fromHand, actionPayload.fromSlotIndex)
  ELSE IF actionPayload.action = "CONTEXT_ACTION"
  THEN applyContextAction(G, actionPayload.actionType,
                          reconstructTargetFromClient(G, actionPayload.target),
                          rnd.shuffle)
  ELSE IF actionPayload.action = "UPDATE_RESOURCE"
  THEN [g |-> applyResourceUpdate(G, actionPayload.playerId,
                                  actionPayload.resourceType, actionPayload.newValue),
        threw |-> FALSE]
  ELSE IF actionPayload.action = "FORFEIT"
  THEN [g |-> applyForfeit(G, actionPayload.playerId), threw |-> FALSE]
  ELSE IF actionPayload.action = "DECK_RESET"
  THEN [g |-> applyDeckReset(G), threw |-> FALSE]
  ELSE IF actionPayload.action = "GAME_RESET"
  THEN applyGameReset(G, rnd.first)
  ELSE [g |-> G, threw |-> FALSE]

(***************************************************************************)
(* Snapshots.  JSON.parse(JSON.stringify(gameState)) is a deep copy of     *)
(* every field, isHost, hostId and connections included: each array entry  *)
(* becomes an object of its own, and a connection becomes a plain object.  *)
(* Fresh objects are numbered by the place they are read at.  The          *)
(* transport's peer and connection objects are taken to serialise (the     *)
(* library that defines them is not part of the repository).               *)
(***************************************************************************)
RefBase == 1000

JSONCopy(G) ==
  [G EXCEPT
     !.deck = [i \in 1..Len(G.deck) |-> [G.deck[i] EXCEPT !.ref = i - 1]],
     !.players = [p \in 1..Len(G.players) |->
                    [G.players[p] EXCEPT
                       !.hand = [i \in 1..Len(G.players[p].hand) |->
                                   [G.players[p].hand[i] EXCEPT
                                      !.ref = RefBase * p + i]]]],
     !.fieldSlots = [s \in 1..NumSlots |->
                       [i \in 1..Len(G.fieldSlots[s]) |->
                          [G.fieldSlots[s][i] EXCEPT
                             !.ref = RefBase * (NumSlots + s) + i]]],
     !.connections = [i \in 1..Len(G.connections) |->
                        [G.connections[i] EXCEPT !.live = FALSE]]]

SyncMessage(G) == [type |-> "SYNC_GAME_STATE", payload |-> JSONCopy(G)]

\* Object.assign(gameState, hostState): every field of the snapshot is a field of gameState
updateGameStateFromHost(G, hostState) == hostState

(***************************************************************************)
(* State                                                                   *)
(*   gameState[p]  the gameState object of peer p                          *)
(*   link[c]       the data connection of client c: "idle" before it       *)
(*                 opens, then "open", "error" once it has reported an     *)
(*                 error, and "closed" once it has closed                  *)
(*   toHost[c]     messages client c sent that the host has not handled    *)
(*   toClient[c]   messages the host sent to c that c has not handled      *)
(*   steps         inputs (gestures, raw sends, transport events) so far   *)
(*   last          log of the handler that ran last: the peer it ran on,   *)
(*                 its kind, the payload it was given, that peer's         *)
(*                 gameState before it ran and whether it threw            *)
(***************************************************************************)
VARIABLES gameState, link, toHost, toClient, steps, last

vars == <<gameState, link, toHost, toClient, steps, last>>

NoPayload == [action |-> "NONE"]

Log(p, kind, payload, threw) ==
  [peer |-> p, kind |-> kind, payload |-> payload, before |-> gameState[p],
   threw |-> threw]

\* initPeerJS: no joinId makes the host, a joinId makes a client of that host
initPeerJS(p) ==
  IF p = Host THEN [EmptyGameState EXCEPT !.isHost = TRUE]
  ELSE [EmptyGameState EXCEPT !.isHost = FALSE, !.hostId = 0]

Init ==
  /\ gameState = [p \in Peers |-> initPeerJS(p)]
  /\ link = [c \in Clients |-> "idle"]
  /\ toHost = [c \in Clients |-> <<>>]
  /\ toClient = [c \in Clients |-> <<>>]
  /\ steps = 0
  /\ last = [peer |-> Host, kind |-> "none", payload |-> NoPayload,
             before |-> EmptyGameState, threw |-> FALSE]

(***************************************************************************)
(* broadcastGameState on a peer whose state is G: the set of peers the     *)
(* SYNC_GAME_STATE message SyncMessage(G) is sent to.  targetConn is the   *)
(* peer at the other end of the connection to answer, or "all" for the     *)
(* loop over G.connections, which stops at the first entry that is not a   *)
(* live connection (c.send is not a function).                             *)
(***************************************************************************)
broadcastGameState(G, targetConn) ==
  IF targetConn # "all" THEN {targetConn}
  ELSE {G.connections[i].peer : i \in {k \in 1..Len(G.connections) :
                                         \A j \in 1..k : G.connections[j].live}}

\* the connection of client c exists and has not closed: send() on it puts
\* a message on the channel
Usable(c) == link[c] \in {"open", "error"}

\* the channels q after peer p sent SyncMessage(G) to the peers in sync
SentToClients(q, p, sync, G) ==
  [c \in Clients |-> IF p = Host /\ c \in sync /\ Usable(c)
                     THEN Append(q[c], SyncMessage(G)) ELSE q[c]]

SentToHost(q, p, sync, G) ==
  [c \in Clients |-> IF p = c /\ Host \in sync /\ Usable(c)
                     THEN Append(q[c], SyncMessage(G)) ELSE q[c]]

\* the outcome of a handler: the state it leaves, whether it threw, the peers
\* it sent a snapshot of that state to, the PLAYER_ACTION messages it sent
Outcome(g, threw, sync, sent) ==
  [g |-> g, threw |-> threw, sync |-> sync, sent |-> sent]

(***************************************************************************)
(* Host initialisation: the "open" event of the host's peer.  r is the     *)
(* outcome of getRandomFirstTurn.                                          *)
(***************************************************************************)
\* initGameAsHost that forgets gameState.gameActive = true
initGameAsHostInactive(G, r) ==
  LET G1 == [G EXCEPT
               !.players = <<createPlayer("p1", "Player 1"),
                             createPlayer("p2", "Player 2")>>,
               !.deck = [i \in 1..DeckSize |-> createCard(i - 1)],
               !.currentPlayerIndex = r]
  IN applyDeckReset([G1 EXCEPT !.players[r + 1].isMyTurn = TRUE])

initGameAsHost(G, r) ==
  LET G1 == [G EXCEPT
               !.players = <<createPlayer("p1", "Player 1"),
                             createPlayer("p2", "Player 2")>>,
               !.deck = [i \in 1..DeckSize |-> createCard(i - 1)],
               !.currentPlayerIndex = r]
  IN applyDeckReset([G1 EXCEPT !.players[r + 1].isMyTurn = TRUE,
                               !.gameActive = TRUE])

Initialised == gameState[Host].hostId # Null

HostPeerOpen ==
  /\ ~Initialised
  /\ \E r \in getRandomFirstTurn(2) :
       LET G == initGameAsHost([gameState[Host] EXCEPT !.hostId = 0], r)
       IN /\ gameState' = [gameState EXCEPT ![Host] = G]
          /\ toClient' = SentToClients(toClient, Host, broadcastGameState(G, "all"), G)
  /\ last' = Log(Host, "init", NoPayload, FALSE)
  /\ UNCHANGED <<link, toHost, steps>>

(***************************************************************************)
(* Inputs.  A PLAYER_ACTION payload is whatever the sending peer put in    *)
(* it, so the host is driven with payloads drawn from these sets; NumSlots *)
(* stands for every index outside 0..9 and "px" for an id of no player.    *)
(***************************************************************************)
PlayerIdInputs == {"p1", "p2", "px"}
CardIdInputs == {0, 40}
SlotIndexInputs == {5, MainDeckSlot, NumSlots}
FromSlotInputs == {Null, HeroSlot, MainDeckSlot, NumSlots}
ResourceTypeInputs == {"health", "lifeforce", "mana"}
NewValueInputs == {-1, 7, 45}
ActionTypeInputs == {"FLIP", "ROTATE", "ZOOM", "SEARCH", "SHUFFLE", "DRAW", "BOGUS"}

\* what a client's page puts in a target: the descriptor and copies of its view
ClientCard(cardId, faceDown) ==
  [cardId |-> cardId, isFaceDown |-> faceDown, orientation |-> 0, slot |-> Null]

SlotTarget(slotIndex, stack) ==
  [isSlot |-> TRUE, slotIndex |-> slotIndex, stack |-> stack,
   isHandCard |-> FALSE, cardObject |-> <<>>]

HandTarget(card) ==
  [isSlot |-> FALSE, slotIndex |-> Null, stack |-> <<>>,
   isHandCard |-> TRUE, cardObject |-> <<card>>]

\* a card object whose fields the sender made up
ForgedCard(cardId) ==
  [cardId |-> cardId, isFaceDown |-> FALSE, orientation |-> 90, slot |-> 5]

TargetInputs ==
  {SlotTarget(s, <<>>) : s \in {5, MainDeckSlot, NumSlots}}
  \union {SlotTarget(MainDeckSlot, <<ForgedCard(0)>>)}
  \union {HandTarget(ClientCard(40, TRUE)), HandTarget(ForgedCard(40))}

Payloads ==
  {[action |-> "END_TURN", playerId |-> id] : id \in PlayerIdInputs}
  \union {[action |-> "MOVE_CARD_TO_SLOT", cardId |-> k, slotIndex |-> d,
           fromHand |-> TRUE, fromSlotIndex |-> Null]
            : k \in CardIdInputs, d \in SlotIndexInputs}
  \union {[action |-> "MOVE_CARD_TO_SLOT", cardId |-> k, slotIndex |-> d,
           fromHand |-> FALSE, fromSlotIndex |-> f]
            : k \in CardIdInputs, d \in SlotIndexInputs, f \in FromSlotInputs}
  \union {[action |-> "CONTEXT_ACTION", actionType |-> a, target |-> t]
            : a \in ActionTypeInputs, t \in TargetInputs}
  \union {[action |-> "UPDATE_RESOURCE", playerId |-> id, resourceType |-> rt,
           newValue |-> v]
            : id \in PlayerIdInputs, rt \in ResourceTypeInputs, v \in NewValueInputs}
  \union {[action |-> "FORFEIT", playerId |-> id] : id \in PlayerIdInputs}
  \union {[action |-> "DECK_RESET"], [action |-> "GAME_RESET"], [action |-> "BOGUS"]}

\* the outcomes of Math.random that handling actionPayload on G can consume
RandomOutcomes(G, actionPayload) ==
  [first : IF actionPayload.action = "GAME_RESET"
           THEN getRandomFirstTurn(Len(G.players)) ELSE {0},
   shuffle : IF actionPayload.action = "CONTEXT_ACTION"
                /\ actionPayload.actionType = "SHUFFLE"
             THEN RandomSamples ELSE {"zero"}]

(***************************************************************************)
(* handlePlayerAction: the switch, then broadcastGameState() unless the    *)
(* switch threw                                                            *)
(***************************************************************************)
handlePlayerAction(G, actionPayload, rnd) ==
  LET r == ApplyAction(G, actionPayload, rnd)
  IN Outcome(r.g, r.threw,
             IF r.threw THEN {} ELSE broadcastGameState(r.g, "all"), <<>>)

\* the host's data event for a PLAYER_ACTION message with this payload
HostReceive(actionPayload) ==
  /\ Initialised
  /\ steps < MaxActions
  /\ steps' = steps + 1
  /\ \E rnd \in RandomOutcomes(gameState[Host], actionPayload) :
       LET o == handlePlayerAction(gameState[Host], actionPayload, rnd)
       IN /\ gameState' = [gameState EXCEPT ![Host] = o.g]
          /\ toClient' = SentToClients(toClient, Host, o.sync, o.g)
          /\ last' = Log(Host, "action", actionPayload, o.threw)
  /\ UNCHANGED <<link, toHost>>

(***************************************************************************)
(* The transport.  Connect(c) is the pair of events that establishes the   *)
(* connection of client c: "connection" on the host (setupDataConnection,  *)
(* push) and "open" on the client's outbound connection (the same).  The   *)
(* host's address is known only once its peer is open.                     *)
(***************************************************************************)
LiveConn(peer) == [peer |-> peer, live |-> TRUE]

Connect(c) ==
  /\ Initialised
  /\ link[c] = "idle"
  /\ link' = [link EXCEPT ![c] = "open"]
  /\ gameState' = [gameState EXCEPT
                     ![Host].connections = Append(@, LiveConn(c)),
                     ![c].connections = Append(@, LiveConn(Host))]
  /\ last' = Log(c, "connect", NoPayload, FALSE)
  /\ UNCHANGED <<toHost, toClient, steps>>

(***************************************************************************)
(* The "close" and "error" events of the connection of client c, as        *)
(* setupDataConnection handles them on both peers.  "close" filters the    *)
(* connection object out of gameState.connections (the plain objects a     *)
(* snapshot put there are other objects and stay) and what was in flight   *)
(* is lost; "error" only logs.                                             *)
(***************************************************************************)
ConnEvent(c) == [action |-> "NONE", conn |-> c]

\* connections.filter(x => x !== conn), conn being the live connection to peer
WithoutConn(connections, peer) ==
  SelectSeq(connections, LAMBDA x : x # LiveConn(peer))

ConnectionClose(c) ==
  /\ Usable(c)
  /\ steps < MaxNetActions
  /\ steps' = steps + 1
  /\ link' = [link EXCEPT ![c] = "closed"]
  /\ gameState' = [gameState EXCEPT
                     ![Host].connections = WithoutConn(@, c),
                     ![c].connections = WithoutConn(@, Host)]
  /\ toHost' = [toHost EXCEPT ![c] = <<>>]
  /\ toClient' = [toClient EXCEPT ![c] = <<>>]
  /\ last' = Log(Host, "close", ConnEvent(c), FALSE)

ConnectionError(c) ==
  /\ link[c] = "open"
  /\ steps < MaxNetActions
  /\ steps' = steps + 1
  /\ link' = [link EXCEPT ![c] = "error"]
  /\ last' = Log(Host, "error", ConnEvent(c), FALSE)
  /\ UNCHANGED <<gameState, toHost, toClient>>

(***************************************************************************)
(* Messages a client's peer puts on its connection.  The page itself sends *)
(* only PLAYER_ACTION (sendPlayerAction, below); the peer at the other end *)
(* of a connection is not bound to the page, so the host is also driven    *)
(* with these.                                                             *)
(***************************************************************************)
PlayerAction(actionPayload) == [type |-> "PLAYER_ACTION", payload |-> actionPayload]

NetPayloads ==
  {[action |-> "END_TURN", playerId |-> "p1"],
   [action |-> "DECK_RESET"],
   [action |-> "CONTEXT_ACTION", actionType |-> "DRAW",
    target |-> SlotTarget(MainDeckSlot, <<>>)],
   [action |-> "MOVE_CARD_TO_SLOT", cardId |-> 40, slotIndex |-> NumSlots,
    fromHand |-> FALSE, fromSlotIndex |-> MainDeckSlot]}

NetMessages ==
  {PlayerAction(a) : a \in NetPayloads}
  \union {[type |-> "REQUEST_GAME_STATE", payload |-> NoPayload],
          [type |-> "JOIN", payload |-> NoPayload]}

ClientSend(c, message) ==
  /\ Usable(c)
  /\ steps < MaxNetActions
  /\ steps' = steps + 1
  /\ toHost' = [toHost EXCEPT ![c] = Append(@, message)]
  /\ last' = Log(c, "send", message, FALSE)
  /\ UNCHANGED <<gameState, link, toClient>>

(***************************************************************************)
(* handlePeerMessage on a peer whose state is G, for a message that        *)
(* arrived on its connection with peer from                                *)
(***************************************************************************)
handlePeerMessage(G, from, message, rnd) ==
  IF message.type = "REQUEST_GAME_STATE"
  THEN Outcome(G, FALSE, IF G.isHost THEN broadcastGameState(G, from) ELSE {}, <<>>)
  ELSE IF message.type = "SYNC_GAME_STATE"
  THEN Outcome(IF ~G.isHost THEN updateGameStateFromHost(G, message.payload) ELSE G,
               FALSE, {}, <<>>)
  ELSE IF message.type = "PLAYER_ACTION"
  THEN IF G.isHost THEN handlePlayerAction(G, message.payload, rnd)
       ELSE Outcome(G, FALSE, {}, <<>>)
  ELSE Outcome(G, FALSE, {}, <<>>)

MessageRandom(G, message) ==
  IF message.type = "PLAYER_ACTION" THEN RandomOutcomes(G, message.payload)
  ELSE {[first |-> 0, shuffle |-> "zero"]}

\* how the log names a handled message: a PLAYER_ACTION that reached
\* handlePlayerAction is logged as the action, with its payload
LogOfMessage(p, message, threw) ==
  IF message.type = "PLAYER_ACTION" /\ gameState[p].isHost
  THEN Log(p, "action", message.payload, threw)
  ELSE Log(p, "message", message, threw)

\* the "data" event of the host's connection with client c
HostDeliver(c) ==
  /\ toHost[c] # <<>>
  /\ \E rnd \in MessageRandom(gameState[Host], Head(toHost[c])) :
       LET o == handlePeerMessage(gameState[Host], c, Head(toHost[c]), rnd)
       IN /\ gameState' = [gameState EXCEPT ![Host] = o.g]
          /\ toClient' = SentToClients(toClient, Host, o.sync, o.g)
          /\ last' = LogOfMessage(Host, Head(toHost[c]), o.threw)
  /\ toHost' = [toHost EXCEPT ![c] = Tail(@)]
  /\ UNCHANGED <<link, steps>>

\* the "data" event of client c's connection with the host
ClientDeliver(c) ==
  /\ toClient[c] # <<>>
  /\ \E rnd \in MessageRandom(gameState[c], Head(toClient[c])) :
       LET o == handlePeerMessage(gameState[c], Host, Head(toClient[c]), rnd)
       IN /\ gameState' = [gameState EXCEPT ![c] = o.g]
          /\ toHost' = SentToHost(toHost, c, o.sync, o.g)
          /\ last' = LogOfMessage(c, Head(toClient[c]), o.threw)
  /\ toClient' = [toClient EXCEPT ![c] = Tail(@)]
  /\ UNCHANGED <<link, steps>>

(***************************************************************************)
(* Client -> host player actions.  sendPlayerAction on a peer whose state  *)
(* is G: the messages that leave on connections[0] (none without a         *)
(* connection; a TypeError when the entry is no live connection).          *)
(***************************************************************************)
sendPlayerAction(G, payload) ==
  IF Len(G.connections) = 0 THEN Outcome(G, FALSE, {}, <<>>)
  ELSE IF ~G.connections[1].live THEN Outcome(G, TRUE, {}, <<>>)
  ELSE Outcome(G, FALSE, {}, <<PlayerAction(payload)>>)

isThisLocalPlayer(G, player) ==
  \/ G.isHost /\ player.id = "p1"
  \/ ~G.isHost /\ player.id = "p2"

\* a handler that applied an action locally and then calls broadcastGameState()
LocalThenBroadcast(r) ==
  Outcome(r.g, r.threw, IF r.threw THEN {} ELSE broadcastGameState(r.g, "all"), <<>>)

Done(G) == [g |-> G, threw |-> FALSE]

(***************************************************************************)
(* Gestures of the page of peer p.  Each action is the whole handler of    *)
(* the gesture.  The page is taken to show the peer's current gameState,   *)
(* a drag or a context menu is begun and completed in one step, and        *)
(* confirm() dialogs are answered yes.  A gesture is logged with the       *)
(* payload of the action it applied or sent, NoPayload when it did neither.*)
(***************************************************************************)
Gesture(p, payload, o) ==
  /\ steps < MaxNetActions
  /\ steps' = steps + 1
  /\ gameState' = [gameState EXCEPT ![p] = o.g]
  /\ toClient' = SentToClients(toClient, p, o.sync, o.g)
  /\ toHost' = [c \in Clients |->
                  IF p = c /\ Usable(c)
                  THEN SentToHost(toHost, p, o.sync, o.g)[c] \o o.sent
                  ELSE toHost[c]]
  /\ last' = Log(p, "ui", payload, o.threw)
  /\ UNCHANGED link

\* setupEndTurnButton: the click handler
EndTurnButton(p) ==
  LET G == gameState[p]
      payload == [action |-> "END_TURN",
                  playerId |-> G.players[G.currentPlayerIndex + 1].id]
  IN IF G.currentPlayerIndex + 1 > Len(G.players)
     THEN Gesture(p, NoPayload, Outcome(G, TRUE, {}, <<>>))
     ELSE IF ~isThisLocalPlayer(G, G.players[G.currentPlayerIndex + 1])
     THEN Gesture(p, NoPayload, Outcome(G, FALSE, {}, <<>>))
     ELSE IF G.isHost
     THEN Gesture(p, payload, LocalThenBroadcast(Done(endTurn(G, payload.playerId))))
     ELSE Gesture(p, payload, sendPlayerAction(G, payload))

\* the forfeit button
ForfeitButton(p) ==
  LET G == gameState[p]
      locals == {q \in 1..Len(G.players) : isThisLocalPlayer(G, G.players[q])}
      payload == [action |-> "FORFEIT", playerId |-> G.players[Min(locals)].id]
  IN IF locals = {}
     THEN Gesture(p, NoPayload, Outcome(G, FALSE, {}, <<>>))
     ELSE IF G.isHost
     THEN Gesture(p, payload, LocalThenBroadcast(Done(applyForfeit(G, payload.playerId))))
     ELSE Gesture(p, payload, sendPlayerAction(G, payload))

\* the deck reset button
DeckResetButton(p) ==
  LET G == gameState[p]
      payload == [action |-> "DECK_RESET"]
  IN IF G.isHost
     THEN Gesture(p, payload, LocalThenBroadcast(Done(applyDeckReset(G))))
     ELSE Gesture(p, payload, sendPlayerAction(G, payload))

\* the game reset button
GameResetButton(p) ==
  LET G == gameState[p]
      payload == [action |-> "GAME_RESET"]
  IN IF G.isHost
     THEN \E r \in getRandomFirstTurn(Len(G.players)) :
            Gesture(p, payload, LocalThenBroadcast(applyGameReset(G, r)))
     ELSE Gesture(p, payload, sendPlayerAction(G, payload))

\* updatePlayerResource, from the - and + buttons renderPlayerStats gives the
\* local player
UpdatePlayerResource(p, q, resourceType, delta) ==
  LET G == gameState[p]
      payload == [action |-> "UPDATE_RESOURCE", playerId |-> G.players[q].id,
                  resourceType |-> resourceType,
                  newValue |-> G.players[q][resourceType] + delta]
  IN /\ q \in 1..Len(G.players)
     /\ isThisLocalPlayer(G, G.players[q])
     /\ IF G.isHost
        THEN Gesture(p, payload,
                     LocalThenBroadcast(Done(applyResourceUpdate(G, payload.playerId,
                                               resourceType, payload.newValue))))
        ELSE Gesture(p, payload, sendPlayerAction(G, payload))

\* what can be dragged: a card of the local player's hand (renderPlayerHands)
\* or a card listed by the search modal of a slot; the modal's top card here
UISlotInputs == {5, MainDeckSlot}

Draggable(G) ==
  UNION {{[cardId |-> G.players[q].hand[i].cardId, fromHand |-> TRUE,
           fromSlotIndex |-> Null] : i \in 1..Len(G.players[q].hand)}
           : q \in {x \in 1..Len(G.players) : isThisLocalPlayer(G, G.players[x])}}
  \union {[cardId |-> G.fieldSlots[t + 1][Len(G.fieldSlots[t + 1])].cardId,
           fromHand |-> FALSE, fromSlotIndex |-> t]
            : t \in {x \in UISlotInputs : Len(G.fieldSlots[x + 1]) > 0}}

\* handleDropOnSlot with draggedCardData set by a drag
HandleDropOnSlot(p, slotIndex, draggedCardData) ==
  LET G == gameState[p]
      payload == [action |-> "MOVE_CARD_TO_SLOT", cardId |-> draggedCardData.cardId,
                  slotIndex |-> slotIndex, fromHand |-> draggedCardData.fromHand,
                  fromSlotIndex |-> draggedCardData.fromSlotIndex]
  IN /\ draggedCardData \in Draggable(G)
     /\ IF G.isHost
        THEN Gesture(p, payload,
                     LocalThenBroadcast(moveCardToSlot(G, payload.cardId, slotIndex,
                                          payload.fromHand, payload.fromSlotIndex)))
        ELSE Gesture(p, payload, sendPlayerAction(G, payload))

\* the targets openContextMenu is given: a slot with its stack, or a card of
\* the local player's hand; as plain data when sent (StripRef), as references
\* when applied locally
StripRef(c) ==
  [cardId |-> c.cardId, isFaceDown |-> c.isFaceDown, orientation |-> c.orientation,
   slot |-> c.slot]

StripRefs(seq) == [i \in 1..Len(seq) |-> StripRef(seq[i])]

LocalHandCards(G) ==
  UNION {{G.players[q].hand[i] : i \in 1..Len(G.players[q].hand)}
           : q \in {x \in 1..Len(G.players) : isThisLocalPlayer(G, G.players[x])}}

ContextTargets(G) ==
  {[isSlot |-> TRUE, slotIndex |-> t, stack |-> t, isHandCard |-> FALSE,
    cardObject |-> Null] : t \in UISlotInputs}
  \union {[isSlot |-> FALSE, slotIndex |-> Null, stack |-> Null, isHandCard |-> TRUE,
           cardObject |-> c.ref] : c \in LocalHandCards(G)}

\* the context target as the data that travels in a message
AsPayloadTarget(G, t) ==
  [isSlot |-> t.isSlot, slotIndex |-> t.slotIndex,
   stack |-> StripRefs(StackOf(G, t)), isHandCard |-> t.isHandCard,
   cardObject |-> IF t.cardObject = Null THEN <<>>
                  ELSE <<StripRef(CardByRef(G, t.cardObject))>>]

determineContextActions(G, targetInfo) ==
  IF targetInfo.isSlot /\ Len(StackOf(G, targetInfo)) > 0
  THEN {"FLIP", "ROTATE", "ZOOM", "SEARCH", "SHUFFLE", "DRAW"}
  ELSE IF targetInfo.isHandCard /\ targetInfo.cardObject # Null
  THEN {"FLIP", "ROTATE", "ZOOM"}
  ELSE {}

\* handleContextAction with contextTarget set by openContextMenu
HandleContextAction(p, actionType, contextTarget) ==
  LET G == gameState[p]
      payload == [action |-> "CONTEXT_ACTION", actionType |-> actionType,
                  target |-> AsPayloadTarget(G, contextTarget)]
  IN /\ contextTarget \in ContextTargets(G)
     /\ actionType \in determineContextActions(G, contextTarget)
     /\ IF G.isHost
        THEN \E rnd \in RandomOutcomes(G, payload) :
               Gesture(p, payload,
                       LocalThenBroadcast(applyContextAction(G, actionType,
                                            contextTarget, rnd.shuffle)))
        ELSE Gesture(p, payload, sendPlayerAction(G, payload))

UIGesture(p) ==
  \/ EndTurnButton(p)
  \/ ForfeitButton(p)
  \/ DeckResetButton(p)
  \/ GameResetButton(p)
  \/ \E q \in 1..2, resourceType \in {"health", "lifeforce"}, delta \in {-1, 1} :
       UpdatePlayerResource(p, q, resourceType, delta)
  \/ \E slotIndex \in UISlotInputs :
       \E draggedCardData \in Draggable(gameState[p]) :
         HandleDropOnSlot(p, slotIndex, draggedCardData)
  \/ \E contextTarget \in ContextTargets(gameState[p]) :
       \E actionType \in determineContextActions(gameState[p], contextTarget) :
         HandleContextAction(p, actionType, contextTarget)

(***************************************************************************)
(* The host's action processor: the host is initialised and then applies   *)
(* actions, from PLAYER_ACTION payloads of any content and from gestures   *)
(* on its own page.  No connection is established in this specification,   *)
(* so its broadcasts reach nobody.                                         *)
(***************************************************************************)
Next ==
  \/ HostPeerOpen
  \/ \E actionPayload \in Payloads : HostReceive(actionPayload)
  \/ UIGesture(Host)

Spec == Init /\ [][Next]_vars

(***************************************************************************)
(* The host and its clients over the transport                             *)
(***************************************************************************)
NextNet ==
  \/ HostPeerOpen
  \/ \E c \in NetClients : Connect(c)
  \/ \E c \in NetClients : ConnectionClose(c)
  \/ \E c \in NetClients : ConnectionError(c)
  \/ \E c \in NetClients : \E message \in NetMessages : ClientSend(c, message)
  \/ \E c \in NetClients : HostDeliver(c)
  \/ \E c \in NetClients : ClientDeliver(c)
  \/ \E p \in NetPeers : UIGesture(p)

SpecNet == Init /\ [][NextNet]_vars

\* message delivery is fair: a message waiting on a connection is handled
Fairness ==
  \A c \in Clients : WF_vars(HostDeliver(c)) /\ WF_vars(ClientDeliver(c))

LiveSpec == SpecNet /\ Fairness

(***************************************************************************)
(* State requests.  No page sends REQUEST_GAME_STATE; it comes from the    *)
(* peer at the other end of a connection, in either direction.  Two        *)
(* clients are connected here, so that a reply to one connection can be    *)
(* told from a broadcast to all.                                           *)
(***************************************************************************)
RequestGameState == [type |-> "REQUEST_GAME_STATE", payload |-> NoPayload]

ReqMessages ==
  {RequestGameState, PlayerAction([action |-> "END_TURN", playerId |-> "p1"])}

\* the host's peer puts a message on its connection with client c
HostSend(c, message) ==
  /\ Usable(c)
  /\ steps < MaxNetActions
  /\ steps' = steps + 1
  /\ toClient' = [toClient EXCEPT ![c] = Append(@, message)]
  /\ last' = Log(Host, "send", message, FALSE)
  /\ UNCHANGED <<gameState, link, toHost>>

NextReq ==
  \/ HostPeerOpen
  \/ \E c \in Clients : Connect(c)
  \/ \E c \in Clients : \E message \in ReqMessages : ClientSend(c, message)
  \/ \E c \in Clients : HostSend(c, RequestGameState)
  \/ \E c \in Clients : HostDeliver(c)
  \/ \E c \in Clients : ClientDeliver(c)

SpecReq == Init /\ [][NextReq]_vars

(***************************************************************************)
(* Properties of the host's canonical state                                *)
(***************************************************************************)
Canon == gameState[Host]

\* the last handler was the host applying an action of this kind, from a
\* PLAYER_ACTION message or from a gesture on its page
HostHandled(action) ==
  /\ last.kind \in {"action", "ui"}
  /\ last.peer = Host
  /\ last.payload.action = action

\* the places of G that hold a card with this id
Places(G, cardId) ==
  {<<"deck", 0, i>> : i \in {j \in 1..Len(G.deck) : G.deck[j].cardId = cardId}}
  \union UNION {{<<"slot", s, i>> : i \in {j \in 1..Len(G.fieldSlots[s]) :
                                             G.fieldSlots[s][j].cardId = cardId}}
                  : s \in 1..NumSlots}
  \union UNION {{<<"hand", p, i>> : i \in {j \in 1..Len(G.players[p].hand) :
                                             G.players[p].hand[j].cardId = cardId}}
                  : p \in 1..Len(G.players)}

\* C1 (as claimed): once the host is initialised every card is in exactly one
\* of the hands, the slot stacks and the deck.
C1_CardInExactlyOneContainer ==
  Initialised => \A k \in 0..(DeckSize - 1) : Cardinality(Places(Canon, k)) = 1

\* C2: at most one player of the host's state has the turn flag set.
TurnHolders(G) == {p \in 1..Len(G.players) : G.players[p].isMyTurn}

C2_TurnExclusivity == Cardinality(TurnHolders(Canon)) <= 1

\* an END_TURN moved the turn, and a GAME_RESET redrew it, with the flag following
C2_Witness ==
  /\ HostHandled("END_TURN")
  /\ Canon.currentPlayerIndex # last.before.currentPlayerIndex
  /\ TurnHolders(Canon) = {Canon.currentPlayerIndex + 1}
  /\ TurnHolders(last.before) # TurnHolders(Canon)

\* C7: END_TURN with the id of the player at index i of n players clears that
\* player's flag, sets currentPlayerIndex to (i+1) mod n, sets the flag of the
\* player there and makes that player's lifeforce min(old + 5, 10); every other
\* player field, the battlefield and the deck stay as they were.
EndTurnAccepted ==
  /\ HostHandled("END_TURN")
  /\ Len(last.before.players) > 0
  /\ last.before.players[last.before.currentPlayerIndex + 1].id = last.payload.playerId

C7_EndTurnAdvances ==
  EndTurnAccepted =>
    LET B == last.before
        n == Len(B.players)
        i == B.currentPlayerIndex
        j == IF i + 1 = n THEN 0 ELSE i + 1
        regen == IF B.players[j + 1].lifeforce + 5 < 10
                 THEN B.players[j + 1].lifeforce + 5 ELSE 10
    IN /\ Canon.currentPlayerIndex = j
       /\ Len(Canon.players) = n
       /\ i # j => ~Canon.players[i + 1].isMyTurn
       /\ Canon.players[j + 1].isMyTurn
       /\ Canon.players[j + 1].lifeforce = regen
       /\ \A p \in 1..n :
            /\ Canon.players[p].id = B.players[p].id
            /\ Canon.players[p].name = B.players[p].name
            /\ Canon.players[p].health = B.players[p].health
            /\ Canon.players[p].hand = B.players[p].hand
            /\ Canon.players[p].hasForfeited = B.players[p].hasForfeited
            /\ p # j + 1 => Canon.players[p].lifeforce = B.players[p].lifeforce
            /\ p \notin {i + 1, j + 1} => Canon.players[p].isMyTurn = B.players[p].isMyTurn
       /\ Canon.fieldSlots = B.fieldSlots
       /\ Canon.deck = B.deck
       /\ Canon.gameActive = B.gameActive

\* the last player ended the turn: the index wrapped to 0 and the first player,
\* whose lifeforce had been set to 0, regenerated to 5
C7_Witness ==
  /\ EndTurnAccepted
  /\ last.before.currentPlayerIndex = Len(last.before.players) - 1
  /\ Canon.currentPlayerIndex = 0
  /\ last.before.players[1].lifeforce = 0
  /\ Canon.players[1].lifeforce = 5

\* C8: END_TURN with an id that is not the current player's leaves the whole
\* canonical state as it was.
EndTurnRejected ==
  /\ HostHandled("END_TURN")
  /\ Len(last.before.players) > 0
  /\ last.before.players[last.before.currentPlayerIndex + 1].id # last.payload.playerId

C8_EndTurnRejectedNoChange == EndTurnRejected => Canon = last.before

\* the other player (not an unknown id) tried to end the turn
C8_Witness ==
  /\ EndTurnRejected
  /\ FindPlayer(last.before, last.payload.playerId) # 0
  /\ ~last.threw

\* C9: every player has 0 <= lifeforce <= 10 and health >= 0, and an
\* UPDATE_RESOURCE of health for an existing player sets it to max(requested, 0).
C9_ResourceBounds ==
  /\ \A p \in 1..Len(Canon.players) :
       /\ 0 <= Canon.players[p].lifeforce
       /\ Canon.players[p].lifeforce <= 10
       /\ Canon.players[p].health >= 0
  /\ (/\ HostHandled("UPDATE_RESOURCE")
      /\ last.payload.resourceType = "health"
      /\ FindPlayer(last.before, last.payload.playerId) # 0)
     => Canon.players[FindPlayer(last.before, last.payload.playerId)].health =
          (IF last.payload.newValue > 0 THEN last.payload.newValue ELSE 0)

\* a lifeforce above the ceiling was requested and clamped, while some player's
\* health stands above its starting value
C9_Witness ==
  /\ HostHandled("UPDATE_RESOURCE")
  /\ last.payload.resourceType = "lifeforce"
  /\ last.payload.newValue > 10
  /\ FindPlayer(last.before, last.payload.playerId) # 0
  /\ Canon.players[FindPlayer(last.before, last.payload.playerId)].lifeforce = 10
  /\ \E p \in 1..Len(Canon.players) : Canon.players[p].health > StartHealth

\* C10: MOVE_CARD_TO_SLOT to a slot d of the battlefield, for a card found by id
\* in the stated source (the first hand that holds it, or slot s), takes that
\* entry out of the source, makes the card the last element of slot d and sets
\* the card's slot reference to d; every other hand and slot stack keeps its
\* entries and their order.  (An entry that is the moved object itself shows
\* the new slot reference wherever it is.)
HandOwners(G, cardId) ==
  {p \in 1..Len(G.players) : FindIndex(G.players[p].hand, cardId) # 0}

MoveFound ==
  /\ HostHandled("MOVE_CARD_TO_SLOT")
  /\ InRange(last.payload.slotIndex)
  /\ IF last.payload.fromHand
     THEN HandOwners(last.before, last.payload.cardId) # {}
     ELSE /\ last.payload.fromSlotIndex # Null
          /\ InRange(last.payload.fromSlotIndex)
          /\ FindIndex(last.before.fieldSlots[last.payload.fromSlotIndex + 1],
                       last.payload.cardId) # 0

Containers(G) ==
  {<<"hand", p>> : p \in 1..Len(G.players)} \union {<<"slot", t>> : t \in 1..NumSlots}

Content(G, c) == IF c[1] = "hand" THEN G.players[c[2]].hand ELSE G.fieldSlots[c[2]]

C10_MoveCardToSlot ==
  MoveFound =>
    LET B == last.before
        k == last.payload.cardId
        d == last.payload.slotIndex
        src == IF last.payload.fromHand
               THEN <<"hand", Min(HandOwners(B, k))>>
               ELSE <<"slot", last.payload.fromSlotIndex + 1>>
        dst == <<"slot", d + 1>>
        idx == FindIndex(Content(B, src), k)
        card == Content(B, src)[idx]
        Moved(seq) == [i \in 1..Len(seq) |->
                         IF seq[i].ref = card.ref THEN [seq[i] EXCEPT !.slot = d]
                         ELSE seq[i]]
        rest == RemoveAt(Content(B, src), idx)
        top == Content(Canon, dst)[Len(Content(Canon, dst))]
    IN /\ ~last.threw
       /\ Len(Canon.players) = Len(B.players)
       /\ src # dst => /\ Content(Canon, src) = Moved(rest)
                       /\ Content(Canon, dst) = Moved(Append(Content(B, dst), card))
       /\ src = dst => Content(Canon, dst) = Moved(Append(rest, card))
       /\ top.cardId = k
       /\ top.slot = d
       /\ \A c \in Containers(B) \ {src, dst} : Content(Canon, c) = Moved(Content(B, c))

\* a card that had been drawn into a hand was moved from it to slot 5
C10_Witness ==
  /\ MoveFound
  /\ last.payload.fromHand
  /\ last.payload.slotIndex = 5
  /\ HandOwners(Canon, last.payload.cardId) = {}
  /\ Len(Canon.fieldSlots[6]) = 1
  /\ Canon.fieldSlots[6][1].cardId = last.payload.cardId
  /\ Canon.fieldSlots[6][1].slot = 5

(***************************************************************************)
(* Properties of the synchronisation protocol                              *)
(***************************************************************************)
\* the game fields of a gameState object, as data
MirrorView(G) ==
  [players |-> [p \in 1..Len(G.players) |->
                  [G.players[p] EXCEPT !.hand = StripRefs(@)]],
   currentPlayerIndex |-> G.currentPlayerIndex,
   fieldSlots |-> [t \in 1..NumSlots |-> StripRefs(G.fieldSlots[t])],
   deck |-> StripRefs(G.deck),
   gameActive |-> G.gameActive]

\* C3 (as claimed): whenever a client has handled a SYNC_GAME_STATE message,
\* the first or a later one, its players, currentPlayerIndex, fieldSlots, deck
\* and gameActive equal the payload of that message.
C3_EverySyncReplacesMirror ==
  (/\ last.kind = "message"
   /\ last.peer \in Clients
   /\ last.payload.type = "SYNC_GAME_STATE")
  => MirrorView(gameState[last.peer]) = MirrorView(last.payload.payload)

\* C4 (as claimed): a gesture on a client's page never changes the client's
\* mirror; it only sends a PLAYER_ACTION to the host.
C4_ClientGestureKeepsMirror ==
  (last.kind = "ui" /\ last.peer \in Clients)
  => MirrorView(gameState[last.peer]) = MirrorView(last.before)

\* C5 (as claimed): a step in which the host handled an action, from a
\* PLAYER_ACTION message or from a gesture on its own page, appends one
\* SYNC_GAME_STATE with the state after the action to the channel of every
\* connection in the host's connection set.
HostConnections(G) == {G.connections[i].peer : i \in 1..Len(G.connections)}

C5_BroadcastAfterEveryAction ==
  [][(/\ last'.peer = Host
      /\ \/ last'.kind = "action"
         \/ last'.kind = "ui" /\ last'.payload # NoPayload)
     => \A c \in HostConnections(gameState'[Host]) :
          /\ Len(toClient'[c]) = Len(toClient[c]) + 1
          /\ SubSeq(toClient'[c], 1, Len(toClient[c])) = toClient[c]
          /\ toClient'[c][Len(toClient'[c])].type = "SYNC_GAME_STATE"
          /\ MirrorView(toClient'[c][Len(toClient'[c])].payload)
               = MirrorView(gameState'[Host])]_vars

\* C6 (as claimed): with fair delivery, and the host applying finitely many
\* actions, every client with an open connection eventually holds a mirror equal
\* to the host's canonical state, for good.
C6_EventuallyInSync ==
  \A c \in Clients :
    <>[](link[c] = "open" => MirrorView(gameState[c]) = MirrorView(Canon))

(***************************************************************************)
(* Properties of the context actions                                       *)
(***************************************************************************)
\* the places of the hands and slot stacks of G that hold a card with this id
TablePlaces(G, cardId) == {pl \in Places(G, cardId) : pl[1] # "deck"}

\* the host handled a CONTEXT_ACTION of this type
ContextHandled(actionType) ==
  /\ HostHandled("CONTEXT_ACTION")
  /\ last.payload.actionType = actionType

\* the target the host derives from the payload it handled, on the state before
LastTarget == reconstructTargetFromClient(last.before, last.payload.target)

\* the DRAW the host handled had a target that resolves to a card
DrawResolved ==
  /\ ContextHandled("DRAW")
  /\ Len(last.before.players) > 0
  /\ getTopCard(last.before, LastTarget) # Null

\* C11 (as claimed): a DRAW whose target resolves to a card, the top card of a
\* non-empty slot stack or a named card of some hand, takes the card out of
\* that stack or hand and makes it the last card of the current-turn player's
\* hand, so that afterwards exactly one place of the hands and slot stacks
\* holds it.
C11_DrawMovesCard ==
  DrawResolved =>
    LET B == last.before
        card == CardByRef(B, getTopCard(B, LastTarget))
        hand == Canon.players[B.currentPlayerIndex + 1].hand
    IN /\ ~last.threw
       /\ Len(hand) > 0
       /\ hand[Len(hand)].cardId = card.cardId
       /\ LastTarget.stack # Null =>
            Canon.fieldSlots[LastTarget.stack + 1] =
              SubSeq(B.fieldSlots[LastTarget.stack + 1], 1,
                     Len(B.fieldSlots[LastTarget.stack + 1]) - 1)
       /\ Cardinality(TablePlaces(Canon, card.cardId)) = 1

(***************************************************************************)
(* Two submissions made from the same snapshot.  Two consecutive handlers  *)
(* of the host are the arrivals, in their order; the snapshot both senders *)
(* looked at is the state before the first.                                *)
(***************************************************************************)
\* the slot and the card a DRAW or MOVE payload made from snapshot G aims at,
\* when that card is the top card of the slot in G; <<>> otherwise
Aim(G, payload) ==
  IF /\ payload.action = "CONTEXT_ACTION"
     /\ payload.actionType = "DRAW"
     /\ payload.target.isSlot
     /\ ~payload.target.isHandCard
     /\ InRange(payload.target.slotIndex)
     /\ Len(G.fieldSlots[payload.target.slotIndex + 1]) > 0
  THEN LET stack == G.fieldSlots[payload.target.slotIndex + 1]
       IN <<payload.target.slotIndex, stack[Len(stack)].cardId>>
  ELSE IF /\ payload.action = "MOVE_CARD_TO_SLOT"
          /\ ~payload.fromHand
          /\ InRange(payload.fromSlotIndex)
          /\ Len(G.fieldSlots[payload.fromSlotIndex + 1]) > 0
          /\ G.fieldSlots[payload.fromSlotIndex + 1]
               [Len(G.fieldSlots[payload.fromSlotIndex + 1])].cardId = payload.cardId
  THEN <<payload.fromSlotIndex, payload.cardId>>
  ELSE <<>>

\* the log entry is the host applying an action
IsHostAction(entry) ==
  /\ entry.kind \in {"action", "ui"}
  /\ entry.peer = Host

\* C12 (as claimed): when the host has applied a DRAW or MOVE that took the top
\* card of a slot, the next action it handles, if it is a DRAW or MOVE made
\* from the same snapshot and aimed at that same card, leaves the canonical
\* state unchanged.
C12_RaceLoserIsNoOp ==
  [][(/\ IsHostAction(last)
      /\ IsHostAction(last')
      /\ Aim(last.before, last.payload) # <<>>
      /\ Aim(last.before, last'.payload) = Aim(last.before, last.payload)
      /\ ~last.threw
      /\ FindIndex(gameState[Host].fieldSlots[Aim(last.before, last.payload)[1] + 1],
                   Aim(last.before, last.payload)[2]) = 0)
     => gameState'[Host] = gameState[Host]]_vars

(***************************************************************************)
(* Properties of the resets                                                *)
(***************************************************************************)
\* the layout DECK_RESET deals from the deck of G: deck[0] alone in the hero
\* slot, deck[1..40] in deck order in the main-deck slot, nothing elsewhere
DeckResetLayout(G) ==
  /\ G.fieldSlots[HeroSlot + 1] = <<G.deck[1]>>
  /\ G.fieldSlots[MainDeckSlot + 1] = SubSeq(G.deck, 2, 41)
  /\ \A t \in 1..NumSlots :
       t \notin {HeroSlot + 1, MainDeckSlot + 1} => G.fieldSlots[t] = <<>>
  /\ \A p \in 1..Len(G.players) : G.players[p].hand = <<>>

DeckResetFull ==
  /\ HostHandled("DECK_RESET")
  /\ Len(last.before.deck) >= 41

\* C13: after DECK_RESET on a deck of at least 41 cards slot 2 holds exactly
\* deck[0], slot 8 holds exactly deck[1..40] in deck order, and every other
\* slot stack and every hand is empty; the deck itself is as it was.
C13_DeckResetLayout ==
  DeckResetFull =>
    /\ ~last.threw
    /\ Canon.deck = last.before.deck
    /\ DeckResetLayout(Canon)

\* the deck was reset while a card was in a hand and one lay in another slot
C13_Witness ==
  /\ DeckResetFull
  /\ \E p \in 1..Len(last.before.players) : last.before.players[p].hand # <<>>
  /\ Len(last.before.fieldSlots[MainDeckSlot + 1]) < 40
  /\ Len(Canon.fieldSlots[MainDeckSlot + 1]) = 40
  /\ Canon.fieldSlots[MainDeckSlot + 1][40].cardId = 40

DeckResetShort ==
  /\ HostHandled("DECK_RESET")
  /\ Len(last.before.deck) < 41

\* C14: DECK_RESET applied when the deck holds fewer than 41 cards leaves the
\* canonical state, every slot stack and every hand included, as it was.
C14_DeckResetShortNoChange ==
  DeckResetShort => (~last.threw /\ Canon = last.before)

\* the deck reset button of the host's page was used before the host's peer
\* opened, the deck being still empty
C14_Witness ==
  /\ DeckResetShort
  /\ last.kind = "ui"
  /\ ~Initialised
  /\ Len(Canon.deck) = 0

\* what GAME_RESET is to leave behind, n being the number of players before
GameResetOutcome(n) ==
  /\ Len(Canon.players) = n
  /\ \A p \in 1..n :
       /\ Canon.players[p].health = 40
       /\ Canon.players[p].lifeforce = 10
       /\ Canon.players[p].hand = <<>>
       /\ ~Canon.players[p].hasForfeited
  /\ Len(Canon.deck) = 41
  /\ \A i \in 1..41 :
       /\ Canon.deck[i].cardId = i - 1
       /\ Canon.deck[i].isFaceDown
       /\ Canon.deck[i].orientation = 0
  /\ TurnHolders(Canon) = {Canon.currentPlayerIndex + 1}
  /\ DeckResetLayout(Canon)

NotForfeited(G) == {p \in 1..Len(G.players) : ~G.players[p].hasForfeited}

\* C16: FORFEIT for an existing player sets that player's forfeited flag and
\* sets gameActive to false when at most one player is then not forfeited,
\* leaving gameActive as it was otherwise; nothing else changes.  FORFEIT with
\* an id of no player changes nothing.
C16_Forfeit ==
  HostHandled("FORFEIT") =>
    LET B == last.before
        p == FindPlayer(B, last.payload.playerId)
    IN /\ ~last.threw
       /\ p = 0 => Canon = B
       /\ p # 0 =>
            /\ Canon.players[p].hasForfeited
            /\ Canon.gameActive =
                 (IF Cardinality(NotForfeited(Canon)) <= 1 THEN FALSE ELSE B.gameActive)
            /\ Canon = [B EXCEPT !.players[p].hasForfeited = TRUE,
                                 !.gameActive = Canon.gameActive]

\* one of two players forfeited while the game was active: the other is the
\* sole survivor and the game is over
C16_Witness ==
  /\ HostHandled("FORFEIT")
  /\ FindPlayer(last.before, last.payload.playerId) # 0
  /\ last.before.gameActive
  /\ Cardinality(NotForfeited(last.before)) = 2
  /\ Cardinality(NotForfeited(Canon)) = 1
  /\ ~Canon.gameActive

(***************************************************************************)
(* The client-trust boundary of CONTEXT_ACTION                             *)
(***************************************************************************)
\* the targets that carry the same descriptor as target (isSlot, slotIndex,
\* isHandCard, the card id) with other data in the stack and the card object
SameDescriptor(target) ==
  {[target EXCEPT !.stack = st, !.cardObject = co] :
     st \in {<<>>, <<ForgedCard(0)>>, <<ClientCard(39, TRUE), ClientCard(40, TRUE)>>},
     co \in IF target.cardObject = <<>> THEN {<<>>}
            ELSE {<<ClientCard(target.cardObject[1].cardId, TRUE)>>,
                  <<ForgedCard(target.cardObject[1].cardId)>>}}

\* every entry of a hand or slot stack of G is an object of G's deck
OnlyDeckObjects(G) ==
  /\ \A t \in 1..NumSlots : \A i \in 1..Len(G.fieldSlots[t]) :
       \E j \in 1..Len(G.deck) : G.deck[j] = G.fieldSlots[t][i]
  /\ \A p \in 1..Len(G.players) : \A i \in 1..Len(G.players[p].hand) :
       \E j \in 1..Len(G.deck) : G.deck[j] = G.players[p].hand[i]

\* C17: the state the host reaches by a CONTEXT_ACTION from a client payload is
\* the same for every payload with the same action type and descriptor,
\* whatever stack contents and card fields the payload carries; and every
\* entry of a hand or slot stack is one of the host's own deck objects, never
\* an object a client supplied.
C17_TrustBoundary ==
  /\ OnlyDeckObjects(Canon)
  /\ (HostHandled("CONTEXT_ACTION") /\ last.kind = "action") =>
       /\ \A t \in SameDescriptor(last.payload.target) :
            \A rnd \in RandomOutcomes(last.before, last.payload) :
              ApplyAction(last.before, [last.payload EXCEPT !.target = t], rnd)
                = ApplyAction(last.before, last.payload, rnd)
       /\ \E rnd \in RandomOutcomes(last.before, last.payload) :
            Canon = ApplyAction(last.before, last.payload, rnd).g

\* a FLIP named card-40, held in a hand, with a made-up card object (face-up,
\* rotated, in slot 5): the host flipped its own face-down card and kept its
\* orientation and slot
C17_Witness ==
  /\ ContextHandled("FLIP")
  /\ last.kind = "action"
  /\ last.payload.target = HandTarget(ForgedCard(40))
  /\ \E p \in 1..Len(Canon.players) :
       /\ Len(Canon.players[p].hand) = 1
       /\ Canon.players[p].hand[1].cardId = 40
       /\ ~Canon.players[p].hand[1].isFaceDown
       /\ Canon.players[p].hand[1].orientation = 0
       /\ last.before.players[p].hand[1].isFaceDown

\* the CONTEXT_ACTION the host handled had a descriptor that points at an
\* empty slot, or names a card id that is in no hand
TargetUnresolved ==
  /\ HostHandled("CONTEXT_ACTION")
  /\ \/ /\ last.payload.target.isSlot
        /\ ~last.payload.target.isHandCard
        /\ InRange(last.payload.target.slotIndex)
        /\ last.before.fieldSlots[last.payload.target.slotIndex + 1] = <<>>
     \/ /\ last.payload.target.isHandCard
        /\ ~last.payload.target.isSlot
        /\ last.payload.target.cardObject # <<>>
        /\ HandOwners(last.before, last.payload.target.cardObject[1].cardId) = {}

\* C18: a CONTEXT_ACTION of any type whose descriptor points at an empty slot,
\* or at a card id found in no hand, changes nothing: players, hands, slot
\* stacks, deck and every card's face-down flag and orientation are as before.
C18_UnresolvedTargetNoOp ==
  TargetUnresolved => (~last.threw /\ Canon = last.before)

\* a DRAW named card-40 as a hand card while that card lay in slot 5, where a
\* MOVE had put it, and in no hand
C18_Witness ==
  /\ ContextHandled("DRAW")
  /\ TargetUnresolved
  /\ last.payload.target.isHandCard
  /\ last.payload.target.cardObject[1].cardId = 40
  /\ Len(Canon.fieldSlots[6]) = 1
  /\ Canon.fieldSlots[6][1].cardId = 40
  /\ Canon = last.before

(***************************************************************************)
(* Properties of joining and of transport failures                         *)
(***************************************************************************)
\* C19 (as claimed): when a client's connection opens the first message on it
\* is a JOIN from the client; and the host, on handling a JOIN, appends a
\* player with the default stats to its players and sends every connection a
\* snapshot of the new state.
C19_JoinAddsPlayer ==
  /\ last.kind = "connect" =>
       /\ toHost[last.peer] # <<>>
       /\ Head(toHost[last.peer]).type = "JOIN"
  /\ (last.kind = "message" /\ last.peer = Host /\ last.payload.type = "JOIN") =>
       LET n == Len(last.before.players)
       IN /\ Len(Canon.players) = n + 1
          /\ SubSeq(Canon.players, 1, n) = last.before.players
          /\ Canon.players[n + 1].health = 40
          /\ Canon.players[n + 1].lifeforce = 10
          /\ Canon.players[n + 1].hand = <<>>
          /\ ~Canon.players[n + 1].isMyTurn
          /\ ~Canon.players[n + 1].hasForfeited
          /\ \A c \in HostConnections(Canon) :
               /\ toClient[c] # <<>>
               /\ MirrorView(toClient[c][Len(toClient[c])].payload) = MirrorView(Canon)

\* C20 (as claimed): a connection that has reported an error or has closed is
\* not in the host's connection set, which is the set every broadcast sends
\* to; and the event leaves the canonical game state as it was.
C20_FailedConnectionDropped ==
  /\ \A c \in Clients :
       link[c] \in {"error", "closed"} => c \notin HostConnections(Canon)
  /\ last.kind \in {"close", "error"} => MirrorView(Canon) = MirrorView(last.before)

(***************************************************************************)
(* Properties of the state request                                         *)
(***************************************************************************)
\* the step handles a REQUEST_GAME_STATE message on peer p
HandlesRequest(p) ==
  /\ last'.kind = "message"
  /\ last'.peer = p
  /\ last'.payload.type = "REQUEST_GAME_STATE"

\* the host answers the connection the request came on, the one whose channel
\* to the host the step took a message from, with one snapshot of its state,
\* sends nothing on any other connection and keeps its state
HostAnswersRequester ==
  HandlesRequest(Host) =>
    /\ gameState'[Host] = gameState[Host]
    /\ \A c \in Clients :
         IF toHost'[c] # toHost[c]
         THEN toClient'[c] = Append(toClient[c], SyncMessage(gameState[Host]))
         ELSE toClient'[c] = toClient[c]

\* a client that handles a REQUEST_GAME_STATE sends nothing and keeps its state
ClientIgnoresRequest ==
  \A c \in Clients :
    HandlesRequest(c) => (gameState'[c] = gameState[c] /\ toHost' = toHost)

\* C21 (as claimed): on REQUEST_GAME_STATE the host sends exactly one
\* SYNC_GAME_STATE with its current state to the requesting connection and to
\* no other, and its state is unchanged; a peer that started as a client
\* ignores REQUEST_GAME_STATE.
C21_StateRequest == [][HostAnswersRequester /\ ClientIgnoresRequest]_vars

(***************************************************************************)
(* Properties of SHUFFLE                                                   *)
(***************************************************************************)
\* how many entries of seq are the entry e
Occurrences(seq, e) == Cardinality({i \in 1..Len(seq) : seq[i] = e})

\* a and b have the same length and hold the same entries the same number of
\* times
IsPermutation(a, b) ==
  /\ Len(a) = Len(b)
  /\ \A i \in 1..Len(b) : Occurrences(a, b[i]) = Occurrences(b, b[i])

\* the host handled a SHUFFLE of a slot of the battlefield
ShuffledSlot ==
  /\ ContextHandled("SHUFFLE")
  /\ last.payload.target.isSlot
  /\ InRange(last.payload.target.slotIndex)

\* C22: SHUFFLE of a slot stack leaves in that slot a permutation of the stack
\* (same length, the same card objects the same number of times), and leaves
\* every other slot stack, every hand and the deck as they were.
C22_ShuffleIsPermutation ==
  ShuffledSlot =>
    LET t == last.payload.target.slotIndex + 1
    IN /\ ~last.threw
       /\ IsPermutation(Canon.fieldSlots[t], last.before.fieldSlots[t])
       /\ Canon = [last.before EXCEPT !.fieldSlots[t] = Canon.fieldSlots[t]]

\* the main-deck stack, all 40 cards of it, was shuffled into another order
C22_Witness ==
  /\ ShuffledSlot
  /\ last.payload.target.slotIndex = MainDeckSlot
  /\ Len(last.before.fieldSlots[MainDeckSlot + 1]) = 40
  /\ Canon.fieldSlots[MainDeckSlot + 1] # last.before.fieldSlots[MainDeckSlot + 1]
  /\ Canon.fieldSlots[MainDeckSlot + 1][1] # last.before.fieldSlots[MainDeckSlot + 1][1]

(***************************************************************************)
(* Conservation of the cards in play                                       *)
(***************************************************************************)
\* C23 (as claimed): once the host is initialised, whatever PLAYER_ACTION
\* payloads it is sent, each of the 41 card ids occurs exactly once across
\* all hands and all slot stacks taken together.
C23_CardsInPlayConserved ==
  Initialised =>
    \A cardId \in 0..40 : Cardinality(TablePlaces(Canon, cardId)) = 1

(***************************************************************************)
(* Roles                                                                   *)
(***************************************************************************)
\* C24 (as claimed): a peer that started as a client has isHost = false in
\* every reachable state, and while its connection is open its connection
\* list is the one live connection to the host.
C24_RoleStability ==
  \A c \in Clients :
    /\ ~gameState[c].isHost
    /\ link[c] = "open" => gameState[c].connections = <<LiveConn(Host)>>

(***************************************************************************)
(* The game-active flag                                                    *)
(***************************************************************************)
\* the last handler ran on the initialised host and applied an action
AppliedOnInitialisedHost ==
  /\ IsHostAction(last)
  /\ last.before.hostId # Null

\* C25: once the host is initialised gameActive is true exactly when at least
\* two players are not forfeited; an action that turned it from true to false
\* was a FORFEIT and one that turned it from false to true was a GAME_RESET.
C25_GameActive ==
  Initialised =>
    /\ Canon.gameActive <=> (Cardinality(NotForfeited(Canon)) >= 2)
    /\ (AppliedOnInitialisedHost /\ last.before.gameActive /\ ~Canon.gameActive)
         => HostHandled("FORFEIT")
    /\ (AppliedOnInitialisedHost /\ ~last.before.gameActive /\ Canon.gameActive)
         => HostHandled("GAME_RESET")

\* a game that a forfeit had ended, one player standing, was made active again
\* by a GAME_RESET that put both players back
C25_Witness ==
  /\ AppliedOnInitialisedHost
  /\ HostHandled("GAME_RESET")
  /\ Cardinality(NotForfeited(last.before)) = 1
  /\ ~last.before.gameActive
  /\ Cardinality(NotForfeited(Canon)) = 2
  /\ Canon.gameActive

====
